---- MODULE Spec2Model ----
(***************************************************************************)
(* Agricompass API (src/main.py, src/schemas.py): the request handlers of  *)
(* the marketplace backend as a state machine over the three collections   *)
(* user, listing and order.                                                *)
(*                                                                         *)
(* Handlers are synchronous FastAPI routes, run on a thread pool: requests *)
(* interleave at their database calls.  A handler that makes one database  *)
(* call after authentication is one action; signup, login and create_order *)
(* make several and are one action per database call, with the handler's   *)
(* locals kept in th[w] between them.                                      *)
(*                                                                         *)
(* Modelling conventions                                                   *)
(*  - a document's _id is its index in the collection (insertion order,    *)
(*    which is also created_at order); find_one returns the first match;   *)
(*  - a string that holds an id is the record [wf, n]: wf says whether it  *)
(*    is a well-formed ObjectId string, n which ObjectId it spells;        *)
(*  - None and "" (both falsy to the code's truth tests) are "" for        *)
(*    strings and <<>> for tokens, headers and cursors; an optional number *)
(*    is the empty set or a singleton;                                     *)
(*  - sha256 is collision free: the digest of x is <<"sha256", x>>;        *)
(*  - unit prices are in thousandths, quantities in tenths, so accumulated *)
(*    totals are in ten-thousandths; stored and returned totals are in     *)
(*    hundredths.  Every price and quantity drawn is a dyadic rational, so *)
(*    the float products and sums of the code are exact and round(x, 2)    *)
(*    is round-half-to-even of the exact value.                            *)
(***************************************************************************)
EXTENDS Integers, Sequences, FiniteSets, TLC

VARIABLES
    users,      \* db["user"]: sequence of user documents
    listings,   \* db["listing"]: sequence of listing documents
    orders,     \* db["order"]: sequence of order documents
    th,         \* per worker thread: the handler it is in and its locals
    resp,       \* the response most recently sent
    loginLog    \* history: <<user id, token>> of every successful login response

vars == <<users, listings, orders, th, resp, loginLog>>

(* ------------------------------ bounds -------------------------------- *)
MaxUsers == 2
MaxListings == 1
MaxOrders == 1
MaxItems == 2

Workers == {"w1", "w2"}

(* ------------------------------ values -------------------------------- *)
Roles == {"farmer", "buyer", "officer", "admin"}
Statuses == {"active", "inactive", "sold"}
Null == <<>>

Sha256(x) == <<"sha256", x>>

hash_password(pw) == Sha256(<<pw>>)

\* f"{email}:{role}" hashed (main.py:124 and :145)
email_role_token(email, role) == Sha256(<<email, ":", role>>)

IdStr(n) == [wf |-> TRUE, n |-> n]
BadIdStr == [wf |-> FALSE, n |-> 0]
InvalidId == 0

\* oid(s): ObjectId(s), or HTTP 400 "Invalid id format" (InvalidId here)
oid(s) == IF s.wf THEN s.n ELSE InvalidId

\* serialize_doc: the document with "_id" popped and "id" = str(_id) added
serialize_doc(doc, n) == [k \in (DOMAIN doc) \cup {"id"} |->
                             IF k = "id" THEN IdStr(n) ELSE doc[k]]

Idle == [pc |-> "idle", loc |-> Null]

\* An HTTP response: the status code, the detail of an HTTPException (its
\* message and, for f"...: {id}", the id string formatted into it) and the body.
\* caller and at are history, not part of what is sent: the role the request
\* was authenticated as ("" for none), and for create_order the index of the
\* item the loop was at (0 before the loop, the number of items + 1 after it).
NoArg == [wf |-> FALSE, n |-> 0 - 1]

Response(op, status, msg, body) ==
    [op |-> op, status |-> status, detail |-> [msg |-> msg, arg |-> NoArg],
     body |-> body, caller |-> "", at |-> 0]

\* The response of a handler that depends on get_current_user
Reply(current, op, status, msg, body) ==
    [Response(op, status, msg, body) EXCEPT !.caller = current.role]

NoResponse == Response("none", 0, "", Null)

\* database.create_document: insert_one; the new _id is the next index
create_document(coll, doc) == Append(coll, doc)

Min(S) == CHOOSE x \in S : \A y \in S : x <= y

First(S) == IF S = {} THEN 0 ELSE Min(S)

\* db["user"].find_one({"email": email}): the _id found, 0 for no document
find_user_by_email(email) ==
    First({i \in 1..Len(users) : users[i].email = email})

\* db["user"].find_one({"token": token})
find_user_by_token(token) ==
    First({i \in 1..Len(users) : users[i].token = token})

\* db["listing"].find_one({"_id": id})
find_listing_by_id(id) ==
    First({i \in 1..Len(listings) : i = id})

(* ------------------------------ inputs -------------------------------- *)
Names == {"Amara"}
Emails == {"a@x.com", "b@x.com"}
Passwords == {"pw123", "other"}

SignUpBody == [name : Names, email : Emails, password : Passwords, role : Roles]

LoginBody == [email : Emails, password : Passwords]

\* A user document that predates token issuance (schemas.py: token defaults to None)
LegacyUser ==
    [name |-> "Amara", email |-> "a@x.com", password_hash |-> hash_password("pw123"),
     role |-> "farmer", verified |-> FALSE, token |-> Null]

\* The users of the marketplace runs: one signup per role
MarketUser(name, email, role) ==
    [name |-> name, email |-> email, password_hash |-> hash_password("pw123"),
     role |-> role, verified |-> FALSE, token |-> email_role_token(email, role)]

MarketUsers ==
    << MarketUser("Amara", "farmer@x.com", "farmer"),
       MarketUser("Bola", "buyer@x.com", "buyer"),
       MarketUser("Chidi", "officer@x.com", "officer"),
       MarketUser("Dayo", "admin@x.com", "admin") >>

UnknownToken == email_role_token("nobody@x.com", "admin")

\* Authorization headers: absent, or <<scheme, credentials>>
AuthHeaders(tokens) ==
    {Null} \cup {<<s, t>> : s \in {"Bearer", "bearer", "Basic"}, t \in tokens}

Lower(s) == IF s = "Bearer" THEN "bearer" ELSE IF s = "Basic" THEN "basic" ELSE s

(* --------------------------- auth dependency -------------------------- *)
AuthError(status, msg) == [ok |-> FALSE, status |-> status, detail |-> [msg |-> msg],
                           id |-> BadIdStr, role |-> "", name |-> ""]

AuthedUser(n) == [ok |-> TRUE, status |-> 200, detail |-> [msg |-> ""],
                  id |-> serialize_doc(users[n], n).id, role |-> users[n].role,
                  name |-> users[n].name]

get_current_user(authorization) ==
    IF authorization = Null \/ Lower(authorization[1]) # "bearer"
    THEN AuthError(401, "Unauthorized")
    ELSE LET user == find_user_by_token(authorization[2])
         IN  IF user = 0 THEN AuthError(401, "Invalid token") ELSE AuthedUser(user)

(* ------------------------------ signup -------------------------------- *)
InSignup == {w \in Workers : th[w].pc = "signup_insert"}

\* main.py:121-123: the lookup by email and the duplicate check
signup_find(w, body) ==
    /\ th[w].pc = "idle"
    /\ LET existing == find_user_by_email(body.email)
       IN  IF existing # 0
           THEN /\ resp' = Response("signup", 400, "Email already registered", Null)
                /\ UNCHANGED th
           ELSE /\ Len(users) + Cardinality(InSignup) < MaxUsers
                /\ th' = [th EXCEPT ![w] = [pc |-> "signup_insert", loc |-> body]]
                /\ UNCHANGED resp
    /\ UNCHANGED <<users, listings, orders, loginLog>>

\* main.py:124-133: the token, the document, the insert and the response
signup_insert(w) ==
    /\ th[w].pc = "signup_insert"
    /\ LET body == th[w].loc
           token == email_role_token(body.email, body.role)
           user == [name |-> body.name, email |-> body.email,
                    password_hash |-> hash_password(body.password),
                    role |-> body.role, verified |-> FALSE, token |-> token]
       IN  /\ users' = create_document(users, user)
           /\ resp' = Response("signup", 200, "",
                               [id |-> IdStr(Len(users')), token |-> token,
                                role |-> body.role, name |-> body.name])
    /\ th' = [th EXCEPT ![w] = Idle]
    /\ UNCHANGED <<listings, orders, loginLog>>

(* ------------------------------- login -------------------------------- *)
LoginResponse(id, user, token) ==
    Response("login", 200, "",
             [id |-> serialize_doc(user, id).id, token |-> token,
              role |-> user.role, name |-> user.name])

\* Mutant of login_token: the digest is taken of name:role
login_token_M(user) == email_role_token(user.name, user.role)

\* main.py:145: the token login derives for a user that has none
login_token(user) == email_role_token(user.email, user.role)

\* main.py:146: update_one({"_id": id}, {"$set": {"token": token}})
set_user_token(id, token) == [users EXCEPT ![id].token = token]

\* main.py:141-144 and, for a user that has a token, :148-149
login_find(w, body) ==
    /\ th[w].pc = "idle"
    /\ LET id == find_user_by_email(body.email)
       IN  IF id = 0 \/ users[id].password_hash # hash_password(body.password)
           THEN /\ resp' = Response("login", 401, "Invalid credentials", Null)
                /\ UNCHANGED <<th, loginLog>>
           ELSE IF users[id].token = Null
           THEN /\ th' = [th EXCEPT ![w] = [pc |-> "login_update",
                                             loc |-> [id |-> id, user |-> users[id]]]]
                /\ UNCHANGED <<resp, loginLog>>
           ELSE /\ resp' = LoginResponse(id, users[id], users[id].token)
                /\ loginLog' = loginLog \cup {<<id, users[id].token>>}
                /\ UNCHANGED th
    /\ UNCHANGED <<users, listings, orders>>

\* main.py:145-149: derive the token, store it, answer with it
login_update(w) ==
    /\ th[w].pc = "login_update"
    /\ LET id == th[w].loc.id
           user == th[w].loc.user
           token == login_token(user)
       IN  /\ users' = set_user_token(id, token)
           /\ resp' = LoginResponse(id, user, token)
           /\ loginLog' = loginLog \cup {<<id, token>>}
    /\ th' = [th EXCEPT ![w] = Idle]
    /\ UNCHANGED <<listings, orders>>

\* GET /me (main.py:151-153)
me(authorization) ==
    /\ LET current == get_current_user(authorization)
       IN  resp' = IF current.ok
                   THEN Reply(current, "me", 200, "",
                                 [id |-> current.id, role |-> current.role,
                                  name |-> current.name])
                   ELSE Reply(current, "me", current.status, current.detail.msg, Null)
    /\ UNCHANGED <<users, listings, orders, th, loginLog>>

(* ------------------------------ listings ------------------------------ *)
Maize == <<"M", "a", "i", "z", "e">>
Rice == <<"R", "i", "c", "e">>

Categories == {"grains", "vegetables", "fruits", "legumes", "roots", "other"}

\* POST /listings bodies: 2.5 per kg of maize, 0.125 per kg of rice, and
\* bodies the Listing schema refuses (unit_price or quantity_available < 0)
MaizeBody ==
    [title |-> Maize, category |-> "grains", region |-> "north",
     quantity_available |-> 1000, unit_price |-> 2500]

RiceBody ==
    [title |-> Rice, category |-> "", region |-> "",
     quantity_available |-> 0, unit_price |-> 125]

CreateListingBody ==
    { MaizeBody, RiceBody,
      [RiceBody EXCEPT !.unit_price = 0 - 1000],
      [MaizeBody EXCEPT !.quantity_available = 0 - 10] }

\* schemas.Listing: what the model's constructor accepts
ListingSchemaValid(listing) ==
    /\ listing.category \in Categories
    /\ listing.quantity_available >= 0
    /\ listing.unit_price >= 0
    /\ listing.status \in Statuses

\* main.py:170: current.role in ("farmer", "admin")
can_create_listing(role) == role \in {"farmer", "admin"}

\* POST /listings (main.py:168-185)
create_listing(authorization, body) ==
    /\ LET current == get_current_user(authorization)
           listing == [farmer_id |-> current.id, title |-> body.title,
                       category |-> IF body.category = "" THEN "other" ELSE body.category,
                       region |-> body.region,
                       quantity_available |-> body.quantity_available,
                       unit_price |-> body.unit_price, status |-> "active"]
       IN  IF ~current.ok
           THEN /\ resp' = Reply(current, "create_listing", current.status, current.detail.msg, Null)
                /\ UNCHANGED listings
           ELSE IF ~can_create_listing(current.role)
           THEN /\ resp' = Reply(current, "create_listing", 403,
                                    "Only farmers can create listings", Null)
                /\ UNCHANGED listings
           ELSE IF ~ListingSchemaValid(listing)
           THEN /\ resp' = Reply(current, "create_listing", 500, "Internal Server Error", Null)
                /\ UNCHANGED listings
           ELSE /\ Len(listings) < MaxListings
                /\ listings' = create_document(listings, listing)
                /\ resp' = Reply(current, "create_listing", 200, "",
                                    [id |-> IdStr(Len(listings'))])
    /\ UNCHANGED <<users, orders, th, loginLog>>

(* Title search: {"$regex": q, "$options": "i"} for a q of plain letters is *)
(* a case-insensitive substring test.                                       *)
LowerChar(c) == CASE c = "M" -> "m" [] c = "A" -> "a" [] c = "R" -> "r"
                  [] c = "I" -> "i" [] OTHER -> c

RegexMatchI(q, title) ==
    \E k \in 0..(Len(title) - Len(q)) :
        \A j \in 1..Len(q) : LowerChar(q[j]) = LowerChar(title[k + j])

LimitMin == 1
LimitMax == 200
LimitDefault == 50

\* Query(..., ge=0) and Query(50, ge=1, le=200): FastAPI's validation of the query
QueryValid(p) ==
    /\ \A x \in p.min_price : x >= 0
    /\ \A x \in p.max_price : x >= 0
    /\ p.limit >= LimitMin /\ p.limit <= LimitMax

\* Mutant of ListingFilter: the filter document starts empty, without the status
ListingFilter_M(p, d) ==
    /\ (p.category # "" => d.category = p.category)
    /\ (p.region # "" => d.region = p.region)
    /\ \A x \in p.min_price : d.unit_price >= x
    /\ \A x \in p.max_price : d.unit_price <= x
    /\ (p.q # <<>> => RegexMatchI(p.q, d.title))

\* main.py:196-209: the filter document, as a predicate on a listing document
ListingFilter(p, d) ==
    /\ d.status = "active"
    /\ (p.category # "" => d.category = p.category)
    /\ (p.region # "" => d.region = p.region)
    /\ \A x \in p.min_price : d.unit_price >= x
    /\ \A x \in p.max_price : d.unit_price <= x
    /\ (p.q # <<>> => RegexMatchI(p.q, d.title))

\* The _ids a cursor yields: the matches, created_at descending, at most limit
RECURSIVE Cursor(_, _, _)
Cursor(p, n, limit) ==
    IF n = 0 \/ limit = 0 THEN <<>>
    ELSE IF ListingFilter(p, listings[n])
         THEN <<n>> \o Cursor(p, n - 1, limit - 1)
         ELSE Cursor(p, n - 1, limit)

\* main.py:210-211: find(filt).limit(limit).sort("created_at", -1), serialised
find_listings(p) ==
    LET ids == Cursor(p, Len(listings), p.limit)
    IN  [k \in 1..Len(ids) |-> serialize_doc(listings[ids[k]], ids[k])]

\* GET /listings (main.py:187-211)
get_listings(p) ==
    /\ resp' = IF ~QueryValid(p)
               THEN Response("get_listings", 422, "validation error", Null)
               ELSE Response("get_listings", 200, "", find_listings(p))
    /\ UNCHANGED <<users, listings, orders, th, loginLog>>

\* main.py:278: update_one({"_id": id}, {"$set": {"status": status}})
set_listing_status(id, status) == [listings EXCEPT ![id].status = status]

\* Mutant of can_update_status: the owner's role is let in too
can_update_status_M(role) == role \in {"officer", "admin", "farmer"}

\* main.py:276: current.role in ("officer", "admin")
can_update_status(role) == role \in {"officer", "admin"}

\* PATCH /listings/{listing_id}/status (main.py:271-281)
update_listing_status(authorization, listing_id, status) ==
    /\ LET current == get_current_user(authorization)
           id == oid(listing_id)
       IN  IF ~current.ok
           THEN /\ resp' = Reply(current, "update_listing_status", current.status,
                                    current.detail.msg, Null)
                /\ UNCHANGED listings
           ELSE IF status \notin Statuses
           THEN /\ resp' = Reply(current, "update_listing_status", 422, "validation error", Null)
                /\ UNCHANGED listings
           ELSE IF ~can_update_status(current.role)
           THEN /\ resp' = Reply(current, "update_listing_status", 403,
                                    "Only officers/admin can update status", Null)
                /\ UNCHANGED listings
           ELSE IF id = InvalidId
           THEN /\ resp' = Reply(current, "update_listing_status", 400, "Invalid id format", Null)
                /\ UNCHANGED listings
           ELSE IF find_listing_by_id(id) = 0
           THEN /\ resp' = Reply(current, "update_listing_status", 404, "Listing not found", Null)
                /\ UNCHANGED listings
           ELSE /\ listings' = set_listing_status(id, status)
                /\ resp' = Reply(current, "update_listing_status", 200, "",
                                    [id |-> listing_id, status |-> status])
    /\ UNCHANGED <<users, orders, th, loginLog>>

(* ------------------------------- orders ------------------------------- *)
\* Quantities in tenths: -1.0, 0 and 5.0
Quantities == {0 - 10, 0, 50}

ItemIds == {IdStr(n) : n \in 1..(MaxListings + 1)} \cup {BadIdStr}

OrderItemIn == [listing_id : ItemIds, quantity : Quantities]

(* The items of a request body are drawn as the loop reads them: the handler *)
(* is given the length of body.items when the request arrives and item idx   *)
(* when iteration idx starts.  An item the loop has not read yet has no      *)
(* effect, so this yields the runs of every body of up to MaxItems items.    *)
ItemCounts == 0..MaxItems

\* round(total, 2) of a total >= 0 held in ten-thousandths: hundredths, ties to even
round2(total) ==
    LET q == total \div 100
        r == total % 100
    IN  IF r < 50 THEN q
        ELSE IF r > 50 THEN q + 1
        ELSE IF q % 2 = 0 THEN q ELSE q + 1

\* schemas.OrderItem and schemas.Order: what the model's constructor accepts
OrderSchemaValid(order) ==
    /\ \A k \in 1..Len(order.items) :
          order.items[k].quantity > 0 /\ order.items[k].unit_price >= 0
    /\ order.total_amount >= 0
    /\ order.status \in {"pending", "confirmed", "cancelled", "completed"}

\* Mutant of can_place_order: farmers are let in too
can_place_order_M(role) == role \in {"buyer", "admin", "farmer"}

\* main.py:227: current.role in ("buyer", "admin")
can_place_order(role) == role \in {"buyer", "admin"}

Passed == [status |-> 200, msg |-> "", arg |-> NoArg]

Raise(status, msg, arg) == [status |-> status, msg |-> msg, arg |-> arg]

\* main.py:227-230: the checks made before the loop
order_precheck(current, n_items) ==
    IF ~current.ok THEN Raise(current.status, current.detail.msg, NoArg)
    ELSE IF ~can_place_order(current.role)
    THEN Raise(403, "Only buyers can place orders", NoArg)
    ELSE IF n_items = 0 THEN Raise(400, "No items provided", NoArg)
    ELSE Passed

\* Mutant of item_check: the quantity is checked before the listing's status
item_check_M(it) ==
    LET id == oid(it.listing_id)
        ldoc == find_listing_by_id(id)
    IN  IF id = InvalidId THEN Raise(400, "Invalid id format", NoArg)
        ELSE IF ldoc = 0 THEN Raise(404, "Listing not found: ", it.listing_id)
        ELSE IF it.quantity <= 0 THEN Raise(400, "Quantity must be > 0", NoArg)
        ELSE IF listings[ldoc].status # "active"
        THEN Raise(400, "Listing not active: ", it.listing_id)
        ELSE Passed

\* main.py:235-241: the checks of one item, in the order the loop makes them
item_check(it) ==
    LET id == oid(it.listing_id)
        ldoc == find_listing_by_id(id)
    IN  IF id = InvalidId THEN Raise(400, "Invalid id format", NoArg)
        ELSE IF ldoc = 0 THEN Raise(404, "Listing not found: ", it.listing_id)
        ELSE IF listings[ldoc].status # "active"
        THEN Raise(400, "Listing not active: ", it.listing_id)
        ELSE IF it.quantity <= 0 THEN Raise(400, "Quantity must be > 0", NoArg)
        ELSE Passed

\* A raised HTTPException ends the request: nothing is written
OrderFail(w, current, err, at) ==
    /\ resp' = [Reply(current, "create_order", err.status, err.msg, Null)
                   EXCEPT !.detail.arg = err.arg, !.at = at]
    /\ th' = [th EXCEPT ![w] = Idle]
    /\ UNCHANGED orders

\* main.py:226-233: authentication, the role and empty-list checks, the locals
create_order_start(w, authorization, n_items) ==
    /\ th[w].pc = "idle"
    /\ LET current == get_current_user(authorization)
           err == order_precheck(current, n_items)
       IN  IF err # Passed
           THEN OrderFail(w, current, err, 0)
           ELSE /\ th' = [th EXCEPT ![w] =
                            [pc |-> "order_loop",
                             loc |-> [current |-> current, n_items |-> n_items, idx |-> 1,
                                      items_out |-> <<>>, total |-> 0]]]
                /\ UNCHANGED <<resp, orders>>
    /\ UNCHANGED <<users, listings, loginLog>>

\* main.py:243-248: the snapshot of one item
item_snapshot(it, ldoc) ==
    [listing_id |-> it.listing_id, quantity |-> it.quantity,
     unit_price |-> ldoc.unit_price, title |-> ldoc.title]

\* Mutant of add_to_total: each product is rounded to 2 decimals as it is added
add_to_total_M(total, unit_price, quantity) ==
    total + 100 * round2(unit_price * quantity)

\* main.py:249: total += unit_price * it.quantity
add_to_total(total, unit_price, quantity) == total + unit_price * quantity

\* Mutant of loop_done: the order is built inside the loop, after the first item
loop_done_M(idx, n_items) == TRUE

\* main.py:234: the for loop ends after the last item of body.items
loop_done(idx, n_items) == idx = n_items

\* main.py:234-249: one iteration of the loop over body.items
create_order_item(w, it) ==
    /\ th[w].pc = "order_loop"
    /\ LET loc == th[w].loc
           err == item_check(it)
           ldoc == listings[find_listing_by_id(oid(it.listing_id))]
       IN  IF err # Passed
           THEN OrderFail(w, loc.current, err, loc.idx)
           ELSE /\ th' = [th EXCEPT ![w] =
                            [pc |-> IF loop_done(loc.idx, loc.n_items)
                                    THEN "order_persist" ELSE "order_loop",
                             loc |-> [loc EXCEPT
                                        !.idx = loc.idx + 1,
                                        !.items_out = Append(loc.items_out,
                                                             item_snapshot(it, ldoc)),
                                        !.total = add_to_total(loc.total, ldoc.unit_price,
                                                               it.quantity)]]]
                /\ UNCHANGED <<resp, orders>>
    /\ UNCHANGED <<users, listings, loginLog>>

\* main.py:250-257: the order document built from the locals
order_document(loc) ==
    [buyer_id |-> loc.current.id, items |-> loc.items_out,
     total_amount |-> round2(loc.total), status |-> "pending"]

\* main.py:250-259: the order document, the insert and the response
create_order_persist(w) ==
    /\ th[w].pc = "order_persist"
    /\ LET loc == th[w].loc
           order == order_document(loc)
       IN  IF ~OrderSchemaValid(order)
           THEN /\ resp' = [Reply(loc.current, "create_order", 500,
                                      "Internal Server Error", Null) EXCEPT !.at = loc.idx]
                /\ UNCHANGED orders
           ELSE /\ Len(orders) < MaxOrders
                /\ orders' = create_document(orders, order)
                /\ resp' = [Reply(loc.current, "create_order", 200, "",
                                      [id |-> IdStr(Len(orders')),
                                       total |-> round2(loc.total),
                                       status |-> "pending"]) EXCEPT !.at = loc.idx]
    /\ th' = [th EXCEPT ![w] = Idle]
    /\ UNCHANGED <<users, listings, loginLog>>

\* The caller's orders, created_at descending
RECURSIVE OrdersOf(_, _)
OrdersOf(buyer_id, n) ==
    IF n = 0 THEN <<>>
    ELSE IF orders[n].buyer_id = buyer_id
         THEN <<serialize_doc(orders[n], n)>> \o OrdersOf(buyer_id, n - 1)
         ELSE OrdersOf(buyer_id, n - 1)

\* GET /orders (main.py:261-266)
my_orders(authorization) ==
    /\ LET current == get_current_user(authorization)
       IN  resp' = IF ~current.ok
                   THEN Reply(current, "my_orders", current.status, current.detail.msg, Null)
                   ELSE IF ~can_place_order(current.role)
                   THEN Reply(current, "my_orders", 403, "Only buyers can view their orders", Null)
                   ELSE Reply(current, "my_orders", 200, "", OrdersOf(current.id, Len(orders)))
    /\ UNCHANGED <<users, listings, orders, th, loginLog>>

(* --------------------------- the marketplace --------------------------- *)
MarketTokens == {MarketUsers[i].token : i \in 1..Len(MarketUsers)} \cup {UnknownToken}

\* Callers: one per role, an unknown token, a non-bearer scheme and no header
MarketHeaders ==
    {Null, <<"Basic", UnknownToken>>} \cup {<<"Bearer", t>> : t \in MarketTokens}

Prices == {{}, {125}, {2500}}

QueryParams ==
    [category : {"", "grains", "other"}, region : {"", "north"},
     q : {<<>>, <<"m", "A">>, <<"i">>},
     min_price : Prices, max_price : Prices, limit : {1, LimitDefault}]

NoFilter == [category |-> "", region |-> "", q |-> <<>>, min_price |-> {},
             max_price |-> {}, limit |-> LimitDefault]

\* The queries the requests of a run make: each filter alone, and refused ones
Queries ==
    {[NoFilter EXCEPT !.category = c] : c \in {"", "grains"}}
    \cup {[NoFilter EXCEPT !.region = "north", !.limit = l] : l \in {0, 1, LimitMax + 1}}
    \cup {[NoFilter EXCEPT !.q = <<"m", "A">>], [NoFilter EXCEPT !.min_price = {0 - 1}],
          [NoFilter EXCEPT !.min_price = {125}, !.max_price = {125}]}

\* PATCH /listings/{id}/status requests: every status for the ids a listing can
\* have, one request each for an id without a listing, a malformed id and a
\* status outside the pattern
StatusUpdates ==
    ({IdStr(n) : n \in 1..MaxListings} \X Statuses)
    \cup {<<IdStr(MaxListings + 1), "sold">>, <<BadIdStr, "sold">>, <<IdStr(1), "deleted">>}

\* The one worker that serves POST /orders; every other request is served
\* between its database calls
OrderWorker == "w1"

InitMarket ==
    /\ users = MarketUsers
    /\ listings = <<>>
    /\ orders = <<>>
    /\ th = [w \in Workers |-> Idle]
    /\ resp = NoResponse
    /\ loginLog = {}

\* The requests of a caller: every request for a caller whose role lets it in,
\* the probes for a caller that is refused for its credentials or its role
RequestsOf(a, roles, requests, probes) ==
    IF get_current_user(a).role \in roles THEN requests ELSE probes

NextMarket ==
    \/ \E a \in MarketHeaders :
          \E body \in RequestsOf(a, {"farmer", "admin"}, CreateListingBody, {MaizeBody}) :
             create_listing(a, body)
    \/ \E p \in Queries : get_listings(p)
    \/ \E a \in MarketHeaders :
          \E r \in RequestsOf(a, {"officer", "admin"}, StatusUpdates,
                              {<<IdStr(1), "sold">>, <<IdStr(1), "deleted">>}) :
             update_listing_status(a, r[1], r[2])
    \/ \E a \in MarketHeaders, n \in ItemCounts : create_order_start(OrderWorker, a, n)
    \/ \E it \in OrderItemIn : create_order_item(OrderWorker, it)
    \/ create_order_persist(OrderWorker)
    \/ \E a \in MarketHeaders : my_orders(a)

SpecMarket == InitMarket /\ [][NextMarket]_vars

(* ------------------------ the identity service ------------------------ *)
AuthTokens == {email_role_token(e, r) : e \in Emails, r \in Roles}

InitAuth ==
    /\ users \in {<<>>, <<LegacyUser>>}
    /\ listings = <<>>
    /\ orders = <<>>
    /\ th = [w \in Workers |-> Idle]
    /\ resp = NoResponse
    /\ loginLog = {}

NextAuth ==
    \/ \E authorization \in AuthHeaders(AuthTokens) : me(authorization)
    \/ \E w \in Workers, body \in SignUpBody : signup_find(w, body)
    \/ \E w \in Workers : signup_insert(w)
    \/ \E w \in Workers, body \in LoginBody : login_find(w, body)
    \/ \E w \in Workers : login_update(w)

SpecAuth == InitAuth /\ [][NextAuth]_vars

(* ============================== claims ================================ *)
\* The error kinds of the interface, by HTTP status
KindOf(status) ==
    CASE status = 400 -> "BadRequest" [] status = 401 -> "Unauthorized"
      [] status = 403 -> "Forbidden" [] status = 404 -> "NotFound"
      [] status = 409 -> "Conflict" [] OTHER -> "Other"

\* The email is that of a user an earlier signup stored (LegacyUser was not)
Registered(email) ==
    email # LegacyUser.email /\ \E i \in 1..Len(users) : users[i].email = email

Last(seq) == seq[Len(seq)]

IsAppend(new, old) == Len(new) = Len(old) + 1 /\ SubSeq(new, 1, Len(old)) = old

(* ------------------------- identity and tokens ------------------------ *)
\* C3: a signup for an email that is already registered fails with the error
\* kind Conflict and leaves the set of users unchanged.
C3_DuplicateSignupConflict ==
    [][\A w \in Workers, body \in SignUpBody :
          (Registered(body.email) /\ signup_find(w, body))
             => (KindOf(resp'.status) = "Conflict" /\ users' = users)]_vars

\* C4: every successful login returns the token stored on the user, which is the
\* digest of email:role; the logins of one account, sequential or interleaved,
\* all return the same token; a stored token never changes, and the lazy issue
\* is one update of the token field of the document with the user's id.
C4_LoginLogAgrees ==
    /\ \A p \in loginLog :
          /\ users[p[1]].token = p[2]
          /\ p[2] = email_role_token(users[p[1]].email, users[p[1]].role)
    /\ \A p, q \in loginLog : p[1] = q[1] => p[2] = q[2]
    /\ (resp.op = "login" /\ resp.status = 200)
          => <<oid(resp.body.id), resp.body.token>> \in loginLog

C4_TokenStep ==
    /\ \A i \in 1..Len(users) : users[i].token # Null => users'[i].token = users[i].token
    /\ \A w \in Workers :
          login_update(w) =>
             /\ Len(users') = Len(users)
             /\ \A i \in 1..Len(users) :
                   IF i = th[w].loc.id
                   THEN users'[i] = [users[i] EXCEPT
                                       !.token = email_role_token(users[i].email,
                                                                  users[i].role)]
                   ELSE users'[i] = users[i]

\* C4: the two parts together: the logins of an account agree on its stored
\* token in every state, and every step keeps a stored token.
C4_LoginTokenStable == [](C4_LoginLogAgrees) /\ [][C4_TokenStep]_vars

\* C4 witness: a login has answered with the token it issued for a user that had
\* none, while a second login that also found the user without a token has not
\* made its update yet.
C4_Witness ==
    \E w \in Workers :
       /\ th[w].pc = "login_update"
       /\ users[th[w].loc.id].token # Null
       /\ th[w].loc.user.token = Null
       /\ \E p \in loginLog : p[1] = th[w].loc.id

\* C7: no two users share an email and no two users share a non-null token, so a
\* token resolves to at most one user.
C7_UniqueEmailAndToken ==
    \A i, j \in 1..Len(users) :
       i # j => /\ users[i].email # users[j].email
                /\ (users[i].token # Null => users[i].token # users[j].token)

(* ---------------------------- the marketplace ------------------------- *)
Exists(listing_id) == listing_id.wf /\ listing_id.n \in 1..Len(listings)

\* C1: a create_order call that fails writes no order, and an order is written
\* only by a call that has validated every item of its list.
C1_Step ==
    /\ (resp'.op = "create_order" /\ resp'.status # 200) => orders' = orders
    /\ \A w \in Workers :
          (th[w].pc \in {"order_loop", "order_persist"} /\ th'[w].pc = "idle"
             /\ resp'.status # 200) => orders' = orders
    /\ orders' # orders =>
          \E w \in Workers :
             /\ th[w].pc = "order_persist"
             /\ th[w].loc.idx = th[w].loc.n_items + 1
             /\ Len(th[w].loc.items_out) = th[w].loc.n_items
             /\ \A k \in 1..th[w].loc.n_items :
                   /\ th[w].loc.items_out[k].quantity > 0
                   /\ Exists(th[w].loc.items_out[k].listing_id)
             /\ IsAppend(orders', orders)
             /\ Last(orders').items = th[w].loc.items_out
             /\ resp'.op = "create_order" /\ resp'.status = 200

\* C1: every step of every run is all-or-nothing in the sense of C1_Step.
C1_AllOrNothing == [][C1_Step]_vars

\* C1 witness: a call has failed at its second item, after its first item was
\* validated, and the one order persisted before it is still the only order.
C1_Witness ==
    /\ resp.op = "create_order" /\ resp.status \in {400, 404} /\ resp.at = 2
    /\ Len(orders) = 1

\* The sum of unit_price x quantity over items, in ten-thousandths
RECURSIVE ItemsTotal(_)
ItemsTotal(items) ==
    IF items = <<>> THEN 0
    ELSE items[1].unit_price * items[1].quantity + ItemsTotal(Tail(items))

\* c hundredths is x ten-thousandths rounded to 2 decimals, ties to the even digit
IsRounded(c, x) ==
    LET d == IF 100 * c >= x THEN 100 * c - x ELSE x - 100 * c
    IN  2 * d <= 100 /\ (2 * d = 100 => c % 2 = 0)

\* C2: the total_amount of every order, and the total returned for it, is the
\* rounded sum of unit_price x quantity over its items, each unit_price and title
\* being the listing's; an order that is persisted never changes.
C2_Totals ==
    /\ \A k \in 1..Len(orders) :
          /\ IsRounded(orders[k].total_amount, ItemsTotal(orders[k].items))
          /\ \A i \in 1..Len(orders[k].items) :
                LET item == orders[k].items[i]
                IN  /\ Exists(item.listing_id)
                    /\ item.unit_price = listings[oid(item.listing_id)].unit_price
                    /\ item.title = listings[oid(item.listing_id)].title
    /\ (resp.op = "create_order" /\ resp.status = 200)
          => /\ oid(resp.body.id) \in 1..Len(orders)
             /\ resp.body.total = orders[oid(resp.body.id)].total_amount

C2_OrdersKept ==
    /\ Len(orders') >= Len(orders)
    /\ \A k \in 1..Len(orders) : orders'[k] = orders[k]

\* C2: totals are the rounded sums in every state and no step changes an order.
C2_TotalIsRoundedSum == [](C2_Totals) /\ [][C2_OrdersKept]_vars

\* C2 witness: an order of two items whose exact sum, 1.25, is kept as 1.25 (the
\* two products 0.625 rounded one by one would add to 1.24), after its listing
\* was taken off the market.
C2_Witness ==
    \E k \in 1..Len(orders) :
       /\ Len(orders[k].items) = 2
       /\ ItemsTotal(orders[k].items) = 12500
       /\ orders[k].total_amount = 125
       /\ listings[oid(orders[k].items[1].listing_id)].status = "sold"

\* C5: get_listings returns active listings only, whatever the filters.
C5_OnlyActiveReturned ==
    /\ \A p \in QueryParams :
          \A k \in 1..Len(find_listings(p)) : find_listings(p)[k].status = "active"
    /\ (resp.op = "get_listings" /\ resp.status = 200)
          => \A k \in 1..Len(resp.body) : resp.body[k].status = "active"

\* C5 witness: a query was answered with no listing while the one listing there
\* is, is not active.
C5_Witness ==
    /\ resp.op = "get_listings" /\ resp.status = 200 /\ resp.body = <<>>
    /\ Len(listings) = 1 /\ listings[1].status = "inactive"

\* C6: a listing's status changes only in an update_listing_status call of an
\* officer or admin for that listing with a status of the pattern; a refused
\* call changes no status; every status is active, inactive or sold.
C6_StatusInSet == \A i \in 1..Len(listings) : listings[i].status \in Statuses

C6_StatusStep ==
    /\ Len(listings') >= Len(listings)
    /\ \A i \in 1..Len(listings) :
          listings'[i].status # listings[i].status =>
             /\ resp'.op = "update_listing_status" /\ resp'.status = 200
             /\ resp'.caller \in {"officer", "admin"}
             /\ resp'.body = [id |-> IdStr(i), status |-> listings'[i].status]
             /\ listings'[i].status \in Statuses
             /\ listings' = [listings EXCEPT ![i].status = listings'[i].status]
    /\ (resp'.op = "update_listing_status" /\ resp'.status # 200) => listings' = listings

\* C6: statuses stay in the set and change only by moderation, in every run.
C6_StatusOnlyByModeration == [](C6_StatusInSet) /\ [][C6_StatusStep]_vars

\* C6 witness: an officer has marked the listing sold.
C6_Witness ==
    /\ resp.op = "update_listing_status" /\ resp.status = 200 /\ resp.caller = "officer"
    /\ Len(listings) = 1 /\ listings[1].status = "sold"

\* C8: create_order reports the first failing check: the role, then the empty
\* list, then the items in input order, and for one item the malformed id, the
\* absent listing, the listing that is not active, the quantity <= 0.
C8_StartStep(a, n) ==
    LET current == get_current_user(a)
    IN  IF current.role \notin {"buyer", "admin"}
        THEN /\ resp'.status = 403 /\ KindOf(resp'.status) = "Forbidden" /\ resp'.at = 0
             /\ th'[OrderWorker].pc = "idle"
        ELSE IF n = 0
        THEN /\ resp'.status = 400 /\ resp'.detail.msg = "No items provided"
             /\ resp'.at = 0 /\ th'[OrderWorker].pc = "idle"
        ELSE /\ th'[OrderWorker].pc = "order_loop" /\ resp' = resp
             /\ th'[OrderWorker].loc.items_out = <<>>

C8_ItemStep(it) ==
    LET loc == th[OrderWorker].loc
        at == Len(loc.items_out) + 1
        Failed(status, msg, arg) ==
            /\ resp'.op = "create_order" /\ resp'.status = status
            /\ resp'.detail = [msg |-> msg, arg |-> arg]
            /\ resp'.at = at /\ th'[OrderWorker].pc = "idle"
    IN  /\ loc.idx = at
        /\ IF ~it.listing_id.wf THEN Failed(400, "Invalid id format", NoArg)
           ELSE IF ~Exists(it.listing_id)
           THEN Failed(404, "Listing not found: ", it.listing_id)
           ELSE IF listings[it.listing_id.n].status # "active"
           THEN Failed(400, "Listing not active: ", it.listing_id)
           ELSE IF it.quantity <= 0 THEN Failed(400, "Quantity must be > 0", NoArg)
           ELSE /\ resp' = resp
                /\ Len(th'[OrderWorker].loc.items_out) = at
                /\ th'[OrderWorker].loc.items_out[at].listing_id = it.listing_id
                /\ th'[OrderWorker].loc.items_out[at].quantity = it.quantity

\* A step of create_order_start or create_order_item answers a create_order
\* request or changes the worker's locals: only such steps are examined
OrderStep == resp'.op = "create_order" \/ th'[OrderWorker] # th[OrderWorker]

C8_Step ==
    OrderStep =>
       /\ \A a \in MarketHeaders, n \in ItemCounts :
             (get_current_user(a).ok /\ create_order_start(OrderWorker, a, n))
                => C8_StartStep(a, n)
       /\ \A it \in OrderItemIn : create_order_item(OrderWorker, it) => C8_ItemStep(it)

\* C8: every step of create_order answers with its first failing check.
C8_FirstFailureReported == [][C8_Step]_vars

\* C8 witness: a call whose first item passed and whose second item has quantity 0
\* on an active listing was answered 400 "Quantity must be > 0".
C8_Witness ==
    /\ resp.op = "create_order" /\ resp.status = 400
    /\ resp.detail.msg = "Quantity must be > 0" /\ resp.at = 2
    /\ Len(listings) = 1 /\ listings[1].status = "active"

UserRole(id) == IF id.wf /\ id.n \in 1..Len(users) THEN users[id.n].role ELSE ""

\* C9: every order is pending, has items and belongs to a buyer or admin, the
\* caller that placed it; every listing belongs to a farmer or admin, the caller
\* that created it; a caller of another role is answered Forbidden and nothing
\* is written.
C9_Owners ==
    /\ \A k \in 1..Len(orders) :
          /\ orders[k].status = "pending"
          /\ orders[k].items # <<>>
          /\ UserRole(orders[k].buyer_id) \in {"buyer", "admin"}
    /\ \A i \in 1..Len(listings) : UserRole(listings[i].farmer_id) \in {"farmer", "admin"}

C9_GateStep ==
    /\ \A a \in MarketHeaders :
          LET current == get_current_user(a)
          IN  /\ (current.ok /\ current.role \notin {"buyer", "admin"} /\ OrderStep
                    /\ \E n \in ItemCounts : create_order_start(OrderWorker, a, n))
                    => /\ KindOf(resp'.status) = "Forbidden"
                       /\ UNCHANGED <<users, listings, orders>>
              /\ (current.ok /\ current.role \notin {"farmer", "admin"}
                    /\ resp'.op = "create_listing"
                    /\ \E body \in CreateListingBody : create_listing(a, body))
                    => /\ KindOf(resp'.status) = "Forbidden"
                       /\ UNCHANGED <<users, listings, orders>>
    /\ orders' # orders =>
          /\ IsAppend(orders', orders)
          /\ Last(orders').buyer_id = th[OrderWorker].loc.current.id
          /\ resp'.caller = UserRole(Last(orders').buyer_id)
    /\ listings' # listings /\ Len(listings') # Len(listings) =>
          /\ IsAppend(listings', listings)
          /\ resp'.op = "create_listing" /\ resp'.status = 200
          /\ resp'.caller = UserRole(Last(listings').farmer_id)

\* C9: owners have the gated roles in every state and every step keeps the gate.
C9_RoleGating == [](C9_Owners) /\ [][C9_GateStep]_vars

\* C9 witness: the admin owns a listing and an order, and a caller of another
\* role was just answered 403.
C9_Witness ==
    /\ Len(orders) = 1 /\ UserRole(orders[1].buyer_id) = "admin"
    /\ Len(listings) = 1 /\ UserRole(listings[1].farmer_id) = "admin"
    /\ resp.status = 403 /\ resp.op \in {"create_order", "create_listing"}

\* C10: when create_order persists an order, every listing its items refer to
\* exists and is active.
C10_ActiveAtPersist ==
    [][orders' # orders =>
          \A i \in 1..Len(Last(orders').items) :
             LET id == Last(orders').items[i].listing_id
             IN  Exists(id) /\ listings[id.n].status = "active"]_vars

====
